---- MODULE Spec2Model ----
(***************************************************************************)
(* Connectivity health monitor of legend-state-supabase-sync:              *)
(*   - ChannelMonitor and computeChannelHealth (channel-monitor.ts)        *)
(*   - Poller and its timer provider (poller.ts)                           *)
(*   - NetworkMonitor and its INetInfo provider (network-monitor.ts)       *)
(*   - SupabaseQueryManager and its ISupabaseClient backend                *)
(*     (supabase-query-manager.ts)                                         *)
(* Each component has its own specification over the shared variables;     *)
(* a specification holds the variables of the other components constant.   *)
(***************************************************************************)
EXTENDS Integers, Sequences, FiniteSets, TLC

VARIABLES
    state,        \* ChannelMonitor.state$ : [status, lastMessage, error]
    channel,      \* the injected IRealtimeChannel as the monitor sees it
    now,          \* Date.now(), in ms
    chOp,         \* the last ChannelMonitor operation or callback delivered
    chHist,       \* what was delivered to the ChannelMonitor since its last start
    netState,     \* the NetworkState observable read by computeChannelHealth
    health,       \* the last value read from the computed health observable
    isRunning,    \* Poller.isRunning
    timer,        \* Poller.timer : a handle id, or 0 for null
    provider,     \* the TimerProvider: scheduled handles and call counts
    invocations,  \* one record per refreshFn invocation, in call order
    onErrorCalls, \* the calls received by config.onError, in call order
    config,       \* PollerConfig as resolved by the constructor
    pOp,          \* the last Poller operation or timer event
    unsubscribe,  \* NetworkMonitor.unsubscribe : a listener id, or 0 for null
    starts,       \* the startMonitoring() calls suspended at their await
    netInfo,      \* the INetInfo provider: raw state, listeners, call counts
    nHist,        \* what happened to the NetworkMonitor since its last stop
    nOp,          \* the last NetworkMonitor operation or provider event
    db,           \* the backend's stored records, per schema
    dbErrors,     \* the error the backend reports for the table, "" for none
    qOp,          \* the last SupabaseQueryManager operation and its outcome
    sys           \* the component that took the last step, and the steps taken

chVars == <<state, channel, now, chOp>>
hVars == <<netState, health>>
pVars == <<isRunning, timer, provider, invocations, onErrorCalls, config, pOp>>
nVars == <<unsubscribe, starts, netInfo, nHist, nOp>>
qVars == <<db, dbErrors, qOp>>
dVars == <<chHist>>
sVars == <<sys>>
vars == <<state, channel, now, chOp, netState, health,
          isRunning, timer, provider, invocations, onErrorCalls, config, pOp,
          unsubscribe, starts, netInfo, nHist, nOp,
          db, dbErrors, qOp, chHist, sys>>

----------------------------------------------------------------------------
(* Bounds *)

MaxClockSteps == 3
NumPayloads == 2
MaxStartMonitoring == 2
MaxTicks == 3
MaxSetInterval == 2
NumRawStates == 3
MaxProbes == 3
MaxRecords == 2
MaxSystemSteps == 4

----------------------------------------------------------------------------
(* Values *)

null == [isNull |-> TRUE]

ChannelStatus == {"INITIAL", "SUBSCRIBED", "CLOSED", "CHANNEL_ERROR", "TIMED_OUT"}

EventTypes == <<"INSERT", "UPDATE", "DELETE">>

RealtimePayload(i) ==
    [commit_timestamp |-> i, eventType |-> EventTypes[(i % 3) + 1],
     schema |-> "public", table |-> "test"]

Payloads == {RealtimePayload(i) : i \in 1..NumPayloads}

ChannelError(message, code) ==
    [name |-> "ChannelError", message |-> message, code |-> code]

NetworkConnectionType ==
    {"unknown", "none", "wifi", "cellular", "bluetooth", "ethernet",
     "wimax", "vpn", "other"}

\* isInternetReachable : boolean | null, as a three-valued tag
Reachability == {"true", "false", "null"}

NetworkStates ==
    [isConnected : BOOLEAN, connectionType : NetworkConnectionType,
     isInternetReachable : Reachability]

STALE_MS == 30000

\* the clock moves by 1 ms or by one ms less than the staleness threshold
ClockSteps == {1, STALE_MS - 1}

Times ==
    {a + b * (STALE_MS - 1) :
        <<a, b>> \in {p \in (0..MaxClockSteps) \X (0..MaxClockSteps) :
                        p[1] + p[2] <= MaxClockSteps}}

----------------------------------------------------------------------------
(* legend-state observable-object assign: a shallow merge of the keys given *)

Assign(obj, patch) ==
    [k \in DOMAIN obj \cup DOMAIN patch |->
        IF k \in DOMAIN patch THEN patch[k] ELSE obj[k]]

----------------------------------------------------------------------------
(* ChannelMonitor *)

InitialChannelState == [status |-> "INITIAL", lastMessage |-> null, error |-> null]

StatusPatchBroken(prefix, status) ==
    IF status = "CHANNEL_ERROR"
    THEN [status |-> status, lastMessage |-> null,
          error |-> ChannelError(prefix \o status, status)]
    ELSE [status |-> status, lastMessage |-> null, error |-> null]

\* the object assigned for a status s, by the subscribe callback and by the
\* initial reconciliation (they differ in the message prefix only)
StatusPatch(prefix, status) ==
    IF status = "CHANNEL_ERROR" \/ status = "TIMED_OUT"
    THEN [status |-> status, lastMessage |-> null,
          error |-> ChannelError(prefix \o status, status)]
    ELSE [status |-> status, lastMessage |-> null, error |-> null]

DataPatchKeepsError(payload, t) ==
    [lastMessage |-> [message |-> payload, receivedAt |-> t]]

DataPatchDropsStatus(payload, t) ==
    [status |-> "SUBSCRIBED",
     lastMessage |-> [message |-> payload, receivedAt |-> t], error |-> null]

\* the object assigned by the postgres_changes callback
DataPatch(payload, t) ==
    [lastMessage |-> [message |-> payload, receivedAt |-> t], error |-> null]

InitialChannel(s) ==
    [state |-> s, statusCallbacks |-> 0, dataCallbacks |-> 0,
     unsubscribeCalls |-> 0, unsubscribePending |-> FALSE]

startMonitoringIdempotent ==
    /\ channel.statusCallbacks < MaxStartMonitoring
    /\ IF channel.statusCallbacks > 0
       THEN UNCHANGED <<channel, state>>
       ELSE /\ channel' = [channel EXCEPT !.statusCallbacks = @ + 1,
                                          !.dataCallbacks = @ + 1]
            /\ state' = Assign(state, StatusPatch("Initial channel status: ", channel.state))
    /\ chOp' = [op |-> "startMonitoring", status |-> channel.state]
    /\ UNCHANGED now

startMonitoringNoReconcile ==
    /\ channel.statusCallbacks < MaxStartMonitoring
    /\ channel' = [channel EXCEPT !.statusCallbacks = @ + 1,
                                  !.dataCallbacks = @ + 1]
    /\ state' = Assign(state, [status |-> channel.state])
    /\ chOp' = [op |-> "startMonitoring", status |-> channel.state]
    /\ UNCHANGED now

\* startMonitoring(): subscribe(cb), on('postgres_changes', cb), then the
\* reconciliation of channel.state
startMonitoring ==
    /\ channel.statusCallbacks < MaxStartMonitoring
    /\ channel' = [channel EXCEPT !.statusCallbacks = @ + 1,
                                  !.dataCallbacks = @ + 1]
    /\ state' = Assign(state, StatusPatch("Initial channel status: ", channel.state))
    /\ chOp' = [op |-> "startMonitoring", status |-> channel.state]
    /\ UNCHANGED now

StatusCallbackCoalesced(s) ==
    /\ channel.statusCallbacks > 0
    /\ state' = IF s = state.status THEN state
                ELSE Assign(state, StatusPatch("Channel status: ", s))
    /\ chOp' = [op |-> "status", status |-> s]
    /\ UNCHANGED <<channel, now>>

\* the transport delivers a status to every registered subscribe callback
StatusCallback(s) ==
    /\ channel.statusCallbacks > 0
    /\ state' = Assign(state, StatusPatch("Channel status: ", s))
    /\ chOp' = [op |-> "status", status |-> s]
    /\ UNCHANGED <<channel, now>>

DataEventCoalesced(p) ==
    /\ channel.dataCallbacks > 0
    /\ state' = IF state.lastMessage # null THEN state
                ELSE Assign(state, DataPatch(p, now))
    /\ chOp' = [op |-> "data", payload |-> p]
    /\ UNCHANGED <<channel, now>>

\* the transport delivers a payload to every registered postgres_changes callback
DataEvent(p) ==
    /\ channel.dataCallbacks > 0
    /\ state' = Assign(state, DataPatch(p, now))
    /\ chOp' = [op |-> "data", payload |-> p]
    /\ UNCHANGED <<channel, now>>

stopMonitoringResets ==
    /\ channel.unsubscribeCalls < MaxStartMonitoring
    /\ channel' = [channel EXCEPT !.unsubscribeCalls = @ + 1,
                                  !.unsubscribePending = TRUE]
    /\ state' = InitialChannelState
    /\ chOp' = [op |-> "stopMonitoring"]
    /\ UNCHANGED now

\* stopMonitoring(): void this.channel.unsubscribe()
stopMonitoring ==
    /\ channel.unsubscribeCalls < MaxStartMonitoring
    /\ channel' = [channel EXCEPT !.unsubscribeCalls = @ + 1,
                                  !.unsubscribePending = TRUE]
    /\ chOp' = [op |-> "stopMonitoring"]
    /\ UNCHANGED <<state, now>>

\* the transport completes a requested unsubscribe: the callbacks are dropped
UnsubscribeCompletes ==
    /\ channel.unsubscribePending
    /\ channel' = [channel EXCEPT !.unsubscribePending = FALSE,
                                  !.statusCallbacks = 0,
                                  !.dataCallbacks = 0]
    /\ chOp' = [op |-> "unsubscribed"]
    /\ UNCHANGED <<state, now>>

\* the transport changes the synchronously readable channel.state
ChannelStateChanges(s) ==
    /\ channel.state # s
    /\ channel' = [channel EXCEPT !.state = s]
    /\ chOp' = [op |-> "channelState", status |-> s]
    /\ UNCHANGED <<state, now>>

\* time passes
Advance(d) ==
    /\ now + d \in Times
    /\ now' = now + d
    /\ chOp' = [op |-> "advance"]
    /\ UNCHANGED <<state, channel>>

NoHistory ==
    [stopped |-> FALSE, lastStatus |-> "none", lastData |-> null,
     reaffirmed |-> FALSE]

\* the record of what the step delivered: the status of the last
\* startMonitoring() or status callback, the payload of the last data event
\* since, whether stopMonitoring() was called since the last start, and
\* whether the step was a SUBSCRIBED callback on a SUBSCRIBED monitor that
\* held a message
Track ==
    chHist' =
        CASE chOp'.op = "startMonitoring" ->
                [stopped |-> FALSE, lastStatus |-> chOp'.status,
                 lastData |-> null, reaffirmed |-> FALSE]
          [] chOp'.op = "status" ->
                [chHist EXCEPT !.lastStatus = chOp'.status, !.lastData = null,
                               !.reaffirmed = /\ chOp'.status = "SUBSCRIBED"
                                              /\ state.status = "SUBSCRIBED"
                                              /\ state.lastMessage # null]
          [] chOp'.op = "data" ->
                [chHist EXCEPT !.lastData = chOp'.payload, !.reaffirmed = FALSE]
          [] chOp'.op = "stopMonitoring" ->
                [chHist EXCEPT !.stopped = TRUE, !.reaffirmed = FALSE]
          [] OTHER -> [chHist EXCEPT !.reaffirmed = FALSE]

----------------------------------------------------------------------------
(* computeChannelHealth: the body of the computed, evaluated at time t *)

computeChannelHealthNoWindow(channelState, networkState, t) ==
    LET isSubscribed == channelState.status = "SUBSCRIBED"
        hasRecentActivity == channelState.lastMessage # null
    IN  /\ isSubscribed
        /\ (networkState.isConnected \/ networkState.isInternetReachable # "false")
        /\ hasRecentActivity

computeChannelHealthInverted(channelState, networkState, t) ==
    LET isSubscribed == channelState.status = "SUBSCRIBED"
        hasRecentActivity ==
            IF channelState.lastMessage # null
            THEN t - channelState.lastMessage.receivedAt >= STALE_MS
            ELSE FALSE
    IN  /\ isSubscribed
        /\ (networkState.isConnected \/ networkState.isInternetReachable # "false")
        /\ hasRecentActivity

computeChannelHealthInclusive(channelState, networkState, t) ==
    LET isSubscribed == channelState.status = "SUBSCRIBED"
        hasRecentActivity ==
            IF channelState.lastMessage # null
            THEN t - channelState.lastMessage.receivedAt <= STALE_MS
            ELSE FALSE
    IN  /\ isSubscribed
        /\ (networkState.isConnected \/ networkState.isInternetReachable # "false")
        /\ hasRecentActivity

computeChannelHealth(channelState, networkState, t) ==
    LET status == channelState.status
        lastMessage == channelState.lastMessage
        isConnected == networkState.isConnected
        isInternetReachable == networkState.isInternetReachable
        isSubscribed == status = "SUBSCRIBED"
        hasRecentActivity ==
            IF lastMessage # null
            THEN t - lastMessage.receivedAt < STALE_MS
            ELSE FALSE
    IN  /\ isSubscribed
        /\ (isConnected \/ isInternetReachable # "false")
        /\ hasRecentActivity

NotRead == [evaluated |-> FALSE, value |-> FALSE]

\* health$.get() on a freshly created computed
ReadHealth ==
    /\ ~health.evaluated
    /\ health' = [evaluated |-> TRUE,
                  value |-> computeChannelHealth(state, netState, now)]
    /\ UNCHANGED <<state, channel, now, chOp, netState>>

GetHealthMarksConnected ==
    /\ health' = [evaluated |-> TRUE,
                  value |-> IF health.evaluated THEN health.value
                            ELSE computeChannelHealth(state, netState, now)]
    /\ chOp' = [op |-> "getHealth", value |-> health'.value]
    /\ netState' = [netState EXCEPT !.isConnected = TRUE]
    /\ UNCHANGED <<state, channel, now>>

\* health$.get() on the computed: the first get evaluates the body, a later
\* one returns the value the computed holds
GetHealth ==
    /\ health' = [evaluated |-> TRUE,
                  value |-> IF health.evaluated THEN health.value
                            ELSE computeChannelHealth(state, netState, now)]
    /\ chOp' = [op |-> "getHealth", value |-> health'.value]
    /\ UNCHANGED <<state, channel, now, netState>>

\* the computed, once evaluated, evaluates its body again when the channel
\* state it read changes, and at no other time
HealthReacts ==
    /\ health' = IF health.evaluated /\ state' # state
                 THEN [evaluated |-> TRUE,
                       value |-> computeChannelHealth(state', netState, now')]
                 ELSE health
    /\ UNCHANGED netState

\* the computed, once evaluated, evaluates its body again when the channel
\* state or the network state it read changes
HealthTracks ==
    health' = IF health.evaluated /\ (state' # state \/ netState' # netState)
              THEN [evaluated |-> TRUE,
                    value |-> computeChannelHealth(state', netState', now')]
              ELSE health

----------------------------------------------------------------------------
(* Poller *)

DEFAULT_INTERVAL_MS == 10000

\* PollerConfig.intervalMs as passed in: absent, or a number of ms
IntervalOptions == {null, [isNull |-> FALSE, value |-> 1000]}

\* config.onError: absent, an observer that returns, an observer that throws
OnErrorKinds == {"absent", "returns", "throws"}

\* constructor(config)
Constructor(intervalMs, onError) ==
    [intervalMs |-> IF intervalMs = null THEN DEFAULT_INTERVAL_MS ELSE intervalMs.value,
     onError |-> onError]

\* what a refreshFn can throw or reject with
ThrownValues ==
    {[type |-> "Error", message |-> "Test error", ref |-> "thrown"],
     [type |-> "string", string |-> "string error"],
     [type |-> "number", number |-> 42]}

\* String(value)
JsString(v) ==
    CASE v.type = "string" -> v.string
      [] v.type = "number" -> ToString(v.number)
      [] v.type = "Error" -> "Error: " \o v.message

\* new Error(message)
NewError(message) == [type |-> "Error", message |-> message, ref |-> "new"]

ToErrorAlwaysWraps(v) == NewError(JsString(v))

\* error instanceof Error ? error : new Error(String(error))
ToError(v) == IF v.type = "Error" THEN v ELSE NewError(JsString(v))

InitialProvider ==
    [scheduled |-> {}, intervals |-> <<>>, setIntervalCalls |-> 0,
     clearIntervalCalls |-> 0]

\* timerProvider.setInterval(callback, intervalMs): a new handle, scheduled
ProviderSetInterval(p, intervalMs) ==
    [p EXCEPT !.scheduled = @ \cup {p.setIntervalCalls + 1},
              !.intervals = Append(@, intervalMs),
              !.setIntervalCalls = @ + 1]

ProviderClearIntervalNoCancel(p, handle) ==
    [p EXCEPT !.clearIntervalCalls = @ + 1]

\* timerProvider.clearInterval(handle): handle.cancel()
ProviderClearInterval(p, handle) ==
    [p EXCEPT !.scheduled = @ \ {handle},
              !.clearIntervalCalls = @ + 1]

StartFreshKeepsFlag ==
    /\ ~isRunning
    /\ provider.setIntervalCalls < MaxSetInterval
    /\ provider' = ProviderSetInterval(provider, config.intervalMs)
    /\ timer' = provider.setIntervalCalls + 1
    /\ pOp' = [op |-> "start", noop |-> FALSE]
    /\ UNCHANGED <<isRunning, invocations, onErrorCalls, config>>

\* start() when not running: isRunning = true, then scheduleNext()
StartFresh ==
    /\ ~isRunning
    /\ provider.setIntervalCalls < MaxSetInterval
    /\ isRunning' = TRUE
    /\ provider' = ProviderSetInterval(provider, config.intervalMs)
    /\ timer' = provider.setIntervalCalls + 1
    /\ pOp' = [op |-> "start", noop |-> FALSE]
    /\ UNCHANGED <<invocations, onErrorCalls, config>>

\* timerProvider.setInterval(callback, intervalMs) throws: the call is made,
\* no handle is returned and nothing is scheduled
ProviderSetIntervalThrows(p, intervalMs) ==
    [p EXCEPT !.intervals = Append(@, intervalMs),
              !.setIntervalCalls = @ + 1]

\* start() when not running and setInterval throws: isRunning = true, then
\* scheduleNext() throws before this.timer is assigned
StartThrows ==
    /\ ~isRunning
    /\ provider.setIntervalCalls < MaxSetInterval
    /\ isRunning' = TRUE
    /\ provider' = ProviderSetIntervalThrows(provider, config.intervalMs)
    /\ pOp' = [op |-> "startThrew"]
    /\ UNCHANGED <<timer, invocations, onErrorCalls, config>>

\* start() when already running
StartAgain ==
    /\ isRunning
    /\ pOp' = [op |-> "start", noop |-> TRUE]
    /\ UNCHANGED <<isRunning, timer, provider, invocations, onErrorCalls, config>>

StartNoGuard ==
    /\ provider.setIntervalCalls < MaxSetInterval
    /\ isRunning' = TRUE
    /\ provider' = ProviderSetInterval(provider, config.intervalMs)
    /\ timer' = provider.setIntervalCalls + 1
    /\ pOp' = [op |-> "start", noop |-> FALSE]
    /\ UNCHANGED <<invocations, onErrorCalls, config>>

\* start()
Start == StartFresh \/ StartAgain

StopKeepsTimer ==
    \/ /\ timer # 0
       /\ timer' = 0
       /\ isRunning' = FALSE
       /\ pOp' = [op |-> "stop", noop |-> FALSE]
       /\ UNCHANGED <<provider, invocations, onErrorCalls, config>>
    \/ /\ timer = 0
       /\ pOp' = [op |-> "stop", noop |-> TRUE]
       /\ UNCHANGED <<isRunning, timer, provider, invocations, onErrorCalls, config>>

StopKeepsRunning ==
    \/ /\ timer # 0
       /\ provider' = ProviderClearInterval(provider, timer)
       /\ timer' = 0
       /\ pOp' = [op |-> "stop", noop |-> FALSE]
       /\ UNCHANGED <<isRunning, invocations, onErrorCalls, config>>
    \/ /\ timer = 0
       /\ pOp' = [op |-> "stop", noop |-> TRUE]
       /\ UNCHANGED <<isRunning, timer, provider, invocations, onErrorCalls, config>>

StopCancelsInFlight ==
    \/ /\ timer # 0
       /\ provider' = ProviderClearInterval(provider, timer)
       /\ timer' = 0
       /\ isRunning' = FALSE
       /\ invocations' = [i \in 1..Len(invocations) |->
                            IF invocations[i].result = "pending"
                            THEN [invocations[i] EXCEPT !.result = "resolved"]
                            ELSE invocations[i]]
       /\ pOp' = [op |-> "stop", noop |-> FALSE]
       /\ UNCHANGED <<onErrorCalls, config>>
    \/ /\ timer = 0
       /\ pOp' = [op |-> "stop", noop |-> TRUE]
       /\ UNCHANGED <<isRunning, timer, provider, invocations, onErrorCalls, config>>

\* stop()
Stop ==
    \/ /\ timer # 0
       /\ provider' = ProviderClearInterval(provider, timer)
       /\ timer' = 0
       /\ isRunning' = FALSE
       /\ pOp' = [op |-> "stop", noop |-> FALSE]
       /\ UNCHANGED <<invocations, onErrorCalls, config>>
    \/ /\ timer = 0
       /\ pOp' = [op |-> "stop", noop |-> TRUE]
       /\ UNCHANGED <<isRunning, timer, provider, invocations, onErrorCalls, config>>

\* how a refreshFn invocation can go: still pending after the call returned
\* a promise, completed, or failed with a value
Completions == {[kind |-> "ok"]} \cup {[kind |-> "throw", value |-> v] : v \in ThrownValues}

Invocation(h, result, thrown, unhandled) ==
    [handle |-> h, result |-> result, thrown |-> thrown, unhandled |-> unhandled]

\* the calls of onError after the catch block ran for tick i with thrown value v
OnErrorAfterCatch(i, v) ==
    IF config.onError = "absent"
    THEN onErrorCalls
    ELSE Append(onErrorCalls, [tick |-> i, error |-> ToError(v)])

\* the invocation record of tick i on handle h once it completed with c
Completed(h, c) ==
    IF c.kind = "ok"
    THEN Invocation(h, "resolved", null, FALSE)
    ELSE Invocation(h, "rejected", c.value, config.onError = "throws")

FireStopsOnFailure(h, c) ==
    /\ h \in provider.scheduled
    /\ Len(invocations) < MaxTicks
    /\ invocations' = Append(invocations, Completed(h, c))
    /\ onErrorCalls' = IF c.kind = "ok" THEN onErrorCalls
                       ELSE OnErrorAfterCatch(Len(invocations) + 1, c.value)
    /\ IF c.kind = "ok" \/ timer = 0
       THEN UNCHANGED <<isRunning, timer, provider>>
       ELSE /\ provider' = ProviderClearInterval(provider, timer)
            /\ timer' = 0
            /\ isRunning' = FALSE
    /\ pOp' = [op |-> "fire", handle |-> h]
    /\ UNCHANGED config

FireSkipsWhilePending(h, c) ==
    /\ h \in provider.scheduled
    /\ Len(invocations) < MaxTicks
    /\ IF \E i \in 1..Len(invocations) : invocations[i].result = "pending"
       THEN UNCHANGED <<invocations, onErrorCalls>>
       ELSE /\ invocations' = Append(invocations, Completed(h, c))
            /\ onErrorCalls' = IF c.kind = "ok" THEN onErrorCalls
                               ELSE OnErrorAfterCatch(Len(invocations) + 1, c.value)
    /\ pOp' = [op |-> "fire", handle |-> h]
    /\ UNCHANGED <<isRunning, timer, provider, config>>

\* the provider fires a scheduled handle and refreshFn returns or throws
\* synchronously
Fire(h, c) ==
    /\ h \in provider.scheduled
    /\ Len(invocations) < MaxTicks
    /\ invocations' = Append(invocations, Completed(h, c))
    /\ onErrorCalls' = IF c.kind = "ok" THEN onErrorCalls
                       ELSE OnErrorAfterCatch(Len(invocations) + 1, c.value)
    /\ pOp' = [op |-> "fire", handle |-> h]
    /\ UNCHANGED <<isRunning, timer, provider, config>>

\* the provider fires a scheduled handle and refreshFn returns a promise
\* that is still pending
FirePending(h) ==
    /\ h \in provider.scheduled
    /\ Len(invocations) < MaxTicks
    /\ invocations' = Append(invocations, Invocation(h, "pending", null, FALSE))
    /\ pOp' = [op |-> "fire", handle |-> h]
    /\ UNCHANGED <<isRunning, timer, provider, onErrorCalls, config>>

\* the promise awaited by tick i settles
Settle(i, c) ==
    /\ i \in 1..Len(invocations)
    /\ invocations[i].result = "pending"
    /\ invocations' = [invocations EXCEPT ![i] = Completed(invocations[i].handle, c)]
    /\ onErrorCalls' = IF c.kind = "ok" THEN onErrorCalls
                       ELSE OnErrorAfterCatch(i, c.value)
    /\ pOp' = [op |-> "settle", tick |-> i]
    /\ UNCHANGED <<isRunning, timer, provider, config>>

----------------------------------------------------------------------------
(* NetworkMonitor *)

\* the raw NetInfoState values the provider reports; isConnected and
\* isInternetReachable are boolean | null, as three-valued tags
RawStateList ==
    << [isConnected |-> "true", type |-> "wifi", isInternetReachable |-> "true"],
       [isConnected |-> "null", type |-> "none", isInternetReachable |-> "null"],
       [isConnected |-> "false", type |-> "unknown", isInternetReachable |-> "null"],
       [isConnected |-> "false", type |-> "cellular", isInternetReachable |-> "false"],
       [isConnected |-> "true", type |-> "ethernet", isInternetReachable |-> "null"],
       [isConnected |-> "null", type |-> "other", isInternetReachable |-> "true"] >>

RawStates == {RawStateList[i] : i \in 1..NumRawStates}

InitialNetworkState ==
    [isConnected |-> FALSE, connectionType |-> "unknown",
     isInternetReachable |-> "null"]

UpdatePatchKeepsType(raw) ==
    [isConnected |-> IF raw.isConnected = "null" THEN FALSE
                     ELSE raw.isConnected = "true",
     isInternetReachable |-> raw.isInternetReachable]

\* the object assigned by updateState(state)
UpdatePatch(raw) ==
    [isConnected |-> IF raw.isConnected = "null" THEN FALSE
                     ELSE raw.isConnected = "true",
     connectionType |-> raw.type,
     isInternetReachable |-> raw.isInternetReachable]

\* updateState(state)
updateState(current, raw) == Assign(current, UpdatePatch(raw))

InitialNetInfo(raw) ==
    [current |-> raw, listeners |-> {}, fetchCalls |-> 0,
     addListenerCalls |-> 0, unregisterCalls |-> 0]

InitialHistory ==
    [startedSinceStop |-> FALSE, frozen |-> null, firstUpdate |-> "none"]

\* the first writer of state$ is remembered
FirstUpdate(h, source) ==
    IF h.firstUpdate = "none" THEN [h EXCEPT !.firstUpdate = source] ELSE h

StartCallRegistersFirst ==
    /\ unsubscribe = 0
    /\ netInfo.fetchCalls < MaxProbes
    /\ netInfo' = [netInfo EXCEPT !.fetchCalls = @ + 1,
                                  !.listeners = @ \cup {netInfo.fetchCalls + 1}]
    /\ starts' = starts \cup {[id |-> netInfo.fetchCalls + 1,
                               phase |-> "fetching", snapshot |-> null]}
    /\ nHist' = [nHist EXCEPT !.startedSinceStop = TRUE, !.frozen = null]
    /\ nOp' = [op |-> "start", noop |-> FALSE, updates |-> 0]
    /\ UNCHANGED <<netState, unsubscribe>>

StartCallOnce ==
    \/ /\ unsubscribe # 0 \/ netInfo.fetchCalls > 0
       /\ nHist' = [nHist EXCEPT !.startedSinceStop = TRUE, !.frozen = null]
       /\ nOp' = [op |-> "start", noop |-> TRUE, updates |-> 0]
       /\ UNCHANGED <<netState, unsubscribe, starts, netInfo>>
    \/ /\ unsubscribe = 0
       /\ netInfo.fetchCalls = 0
       /\ netInfo' = [netInfo EXCEPT !.fetchCalls = @ + 1]
       /\ starts' = starts \cup {[id |-> netInfo.fetchCalls + 1,
                                  phase |-> "fetching", snapshot |-> null]}
       /\ nHist' = [nHist EXCEPT !.startedSinceStop = TRUE, !.frozen = null]
       /\ nOp' = [op |-> "start", noop |-> FALSE, updates |-> 0]
       /\ UNCHANGED <<netState, unsubscribe>>

\* startMonitoring() up to its await: the guard, then netInfo.fetch()
StartMonitoringCall ==
    \/ /\ unsubscribe # 0
       /\ nHist' = [nHist EXCEPT !.startedSinceStop = TRUE, !.frozen = null]
       /\ nOp' = [op |-> "start", noop |-> TRUE, updates |-> 0]
       /\ UNCHANGED <<netState, unsubscribe, starts, netInfo>>
    \/ /\ unsubscribe = 0
       /\ netInfo.fetchCalls < MaxProbes
       /\ netInfo' = [netInfo EXCEPT !.fetchCalls = @ + 1]
       /\ starts' = starts \cup {[id |-> netInfo.fetchCalls + 1,
                                  phase |-> "fetching", snapshot |-> null]}
       /\ nHist' = [nHist EXCEPT !.startedSinceStop = TRUE, !.frozen = null]
       /\ nOp' = [op |-> "start", noop |-> FALSE, updates |-> 0]
       /\ UNCHANGED <<netState, unsubscribe>>

\* the provider resolves a pending fetch() with its current raw state
FetchResolves(c) ==
    /\ c \in starts
    /\ c.phase = "fetching"
    /\ starts' = (starts \ {c}) \cup
                    {[id |-> c.id, phase |-> "resolved", snapshot |-> netInfo.current]}
    /\ nOp' = [op |-> "fetched", updates |-> 0]
    /\ UNCHANGED <<netState, unsubscribe, netInfo, nHist>>

FetchRejectsAppliesDefault(c) ==
    /\ c \in starts
    /\ c.phase = "fetching"
    /\ starts' = starts \ {c}
    /\ netState' = InitialNetworkState
    /\ nOp' = [op |-> "fetchFailed", updates |-> 0]
    /\ UNCHANGED <<unsubscribe, netInfo, nHist>>

\* the provider rejects a pending fetch(): the startMonitoring() call fails
\* at its await
FetchRejects(c) ==
    /\ c \in starts
    /\ c.phase = "fetching"
    /\ starts' = starts \ {c}
    /\ nOp' = [op |-> "fetchFailed", updates |-> 0]
    /\ UNCHANGED <<netState, unsubscribe, netInfo, nHist>>

\* startMonitoring() after its await: updateState(initialState), then
\* this.unsubscribe = netInfo.addEventListener(...)
StartMonitoringResume(c) ==
    /\ c \in starts
    /\ c.phase = "resolved"
    /\ netState' = updateState(netState, c.snapshot)
    /\ netInfo' = [netInfo EXCEPT !.addListenerCalls = @ + 1,
                                  !.listeners = @ \cup {netInfo.addListenerCalls + 1}]
    /\ unsubscribe' = netInfo.addListenerCalls + 1
    /\ starts' = starts \ {c}
    /\ nHist' = FirstUpdate(nHist, "probe")
    /\ nOp' = [op |-> "resume", updates |-> 1, raw |-> c.snapshot]

StopMonitoringKeepsHandle ==
    \/ /\ unsubscribe # 0
       /\ netInfo' = [netInfo EXCEPT !.listeners = @ \ {unsubscribe},
                                     !.unregisterCalls = @ + 1]
       /\ nHist' = [nHist EXCEPT !.startedSinceStop = FALSE, !.frozen = netState]
       /\ nOp' = [op |-> "stop", noop |-> FALSE, updates |-> 0]
       /\ UNCHANGED <<netState, starts, unsubscribe>>
    \/ /\ unsubscribe = 0
       /\ nHist' = [nHist EXCEPT !.startedSinceStop = FALSE]
       /\ nOp' = [op |-> "stop", noop |-> TRUE, updates |-> 0]
       /\ UNCHANGED <<netState, unsubscribe, starts, netInfo>>

StopMonitoringNoGuard ==
    /\ netInfo' = [netInfo EXCEPT !.listeners = @ \ {unsubscribe},
                                  !.unregisterCalls = @ + 1]
    /\ unsubscribe' = 0
    /\ nHist' = [nHist EXCEPT !.startedSinceStop = FALSE,
                              !.frozen = IF unsubscribe # 0 THEN netState ELSE @]
    /\ nOp' = [op |-> "stop", noop |-> unsubscribe = 0, updates |-> 0]
    /\ UNCHANGED <<netState, starts>>

\* stopMonitoring()
StopMonitoring ==
    \/ /\ unsubscribe # 0
       /\ netInfo' = [netInfo EXCEPT !.listeners = @ \ {unsubscribe},
                                     !.unregisterCalls = @ + 1]
       /\ unsubscribe' = 0
       /\ nHist' = [nHist EXCEPT !.startedSinceStop = FALSE, !.frozen = netState]
       /\ nOp' = [op |-> "stop", noop |-> FALSE, updates |-> 0]
       /\ UNCHANGED <<netState, starts>>
    \/ /\ unsubscribe = 0
       /\ nHist' = [nHist EXCEPT !.startedSinceStop = FALSE]
       /\ nOp' = [op |-> "stop", noop |-> TRUE, updates |-> 0]
       /\ UNCHANGED <<netState, unsubscribe, starts, netInfo>>

\* the provider's network state changes and every registered listener is
\* called with it: state => this.updateState(state)
ProviderChanges(raw) ==
    /\ raw # netInfo.current
    /\ netInfo' = [netInfo EXCEPT !.current = raw]
    /\ IF netInfo.listeners # {}
       THEN /\ netState' = updateState(netState, raw)
            /\ nHist' = FirstUpdate(nHist, "push")
       ELSE UNCHANGED <<netState, nHist>>
    /\ nOp' = [op |-> "change", updates |-> Cardinality(netInfo.listeners), raw |-> raw]
    /\ UNCHANGED <<unsubscribe, starts>>

----------------------------------------------------------------------------
(* SupabaseQueryManager over an ISupabaseClient backend *)

IdValues == {"1", "2"}

Names == {"Alice", "Bob"}

\* the rows of the table
Records == [id : IdValues, name : Names]

\* the sequences of at most n rows
RecordSeqs(n) == UNION {[1..k -> Records] : k \in 0..n}

Schemas == {"public", "other"}

ErrorMessages == {"Database connection failed", "Permission denied"}

\* an input field: a value, null, or "absent" for a key the input lacks
NullOrAbsent == {"null", "absent"}

\* the update inputs: Partial<T> with or without its id and its name
UpdateInputs == [id : IdValues \cup NullOrAbsent, name : Names \cup {"absent"}]

\* the answer { data, error } of the backend: an error with null data, or
\* the rows
Response(rows, message) ==
    [hasError |-> message # "", message |-> message,
     dataIsNull |-> message # "",
     rows |-> IF message # "" THEN <<>> ELSE rows]

NoResponse == [hasError |-> FALSE, message |-> "", dataIsNull |-> TRUE, rows |-> <<>>]

\* a backend may answer a successful call with null data
Minimal(resp, nullData) ==
    IF nullData /\ ~resp.hasError
    THEN [resp EXCEPT !.dataIsNull = TRUE, !.rows = <<>>]
    ELSE resp

\* records.findIndex(r => r[field] === value), 0 for -1
FindIndex(records, field, value) ==
    IF \E i \in 1..Len(records) : records[i][field] = value
    THEN CHOOSE i \in 1..Len(records) :
            /\ records[i][field] = value
            /\ \A j \in 1..(i - 1) : records[j][field] # value
    ELSE 0

\* { ...record, ...input }
Spread(record, input) ==
    [k \in DOMAIN record |-> IF input[k] = "absent" THEN record[k] ELSE input[k]]

\* records.splice(index, 1)
Splice(records, index) ==
    [i \in 1..(Len(records) - 1) |-> IF i < index THEN records[i] ELSE records[i + 1]]

\* from(table).select()
BackendSelect(records, message) ==
    [store |-> records, response |-> Response(records, message)]

\* from(table).insert(input).select()
BackendInsert(records, message, input) ==
    IF message # ""
    THEN [store |-> records, response |-> Response(<<>>, message)]
    ELSE [store |-> Append(records, input), response |-> Response(<<input>>, "")]

\* from(table).update(input).eq(field, value).select()
BackendUpdate(records, message, input, field, value) ==
    LET index == FindIndex(records, field, value)
        updated == Spread(records[index], input)
    IN  IF message # ""
        THEN [store |-> records, response |-> Response(<<>>, message)]
        ELSE IF index # 0
        THEN [store |-> [records EXCEPT ![index] = updated],
              response |-> Response(<<updated>>, "")]
        ELSE [store |-> records, response |-> Response(<<>>, "")]

\* from(table).delete().eq(field, value).select()
BackendDelete(records, message, field, value) ==
    LET index == FindIndex(records, field, value)
    IN  IF message # ""
        THEN [store |-> records, response |-> Response(<<>>, message)]
        ELSE IF index # 0
        THEN [store |-> Splice(records, index),
              response |-> Response(<<records[index]>>, "")]
        ELSE [store |-> records, response |-> Response(<<>>, "")]

\* what an operation gives its caller: an Error thrown, rows, a row, or null
Threw(message) == [kind |-> "threw", message |-> message, rows |-> <<>>]

Returned(kind, rows) == [kind |-> kind, message |-> "", rows |-> rows]

NonNullButUndefined(value) == value # "null"

\* assertNonNull(value, fieldName) passes
NonNull(value) == value \notin NullOrAbsent

\* the message of the Error thrown by assertNonNull(value, fieldName)
MustBeNonNull(fieldName) == fieldName \o " must be non-null"

FetchResultIgnoresError(resp) ==
    IF resp.dataIsNull THEN Returned("null", <<>>) ELSE Returned("rows", resp.rows)

\* fetch: if (error) throw new Error(error.message); return data
FetchResult(resp) ==
    IF resp.hasError THEN Threw(resp.message)
    ELSE IF resp.dataIsNull THEN Returned("null", <<>>)
    ELSE Returned("rows", resp.rows)

RowResultIgnoresError(resp) ==
    IF resp.dataIsNull \/ Len(resp.rows) = 0 THEN Returned("null", <<>>)
    ELSE Returned("row", <<resp.rows[1]>>)

RowResultEmptyThrows(resp) ==
    IF resp.hasError THEN Threw(resp.message)
    ELSE IF resp.dataIsNull THEN Returned("null", <<>>)
    ELSE IF Len(resp.rows) = 0 THEN Threw("not found")
    ELSE Returned("row", <<resp.rows[1]>>)

\* create, update, delete: if (error) throw new Error(error.message);
\* return data?.[0] ?? null
RowResult(resp) ==
    IF resp.hasError THEN Threw(resp.message)
    ELSE IF resp.dataIsNull \/ Len(resp.rows) = 0 THEN Returned("null", <<>>)
    ELSE Returned("row", <<resp.rows[1]>>)

\* the error the backend holds for the table as seen through a schema
ErrorOf(schema) == IF schema = "public" THEN dbErrors ELSE ""

\* fetch(collection, schema)
fetch(schema, nullData) ==
    LET resp == Minimal(BackendSelect(db[schema], ErrorOf(schema)).response, nullData)
    IN  /\ qOp' = [op |-> "fetch", called |-> TRUE, schema |-> schema,
                   response |-> resp, result |-> FetchResult(resp)]
        /\ UNCHANGED <<db, dbErrors>>

\* create(collection, input)
create(input, nullData) ==
    LET b == BackendInsert(db.public, dbErrors, input)
        resp == Minimal(b.response, nullData)
    IN  /\ Len(b.store) <= MaxRecords
        /\ db' = [db EXCEPT !.public = b.store]
        /\ qOp' = [op |-> "create", called |-> TRUE, input |-> input,
                   response |-> resp, result |-> RowResult(resp)]
        /\ UNCHANGED dbErrors

\* update(collection, input, 'id')
update(input, nullData) ==
    LET idValue == input.id
        b == BackendUpdate(db.public, dbErrors, input, "id", idValue)
        resp == Minimal(b.response, nullData)
    IN  IF NonNull(idValue)
        THEN /\ db' = [db EXCEPT !.public = b.store]
             /\ qOp' = [op |-> "update", called |-> TRUE, field |-> "id",
                        value |-> idValue, response |-> resp,
                        result |-> RowResult(resp)]
             /\ UNCHANGED dbErrors
        ELSE /\ qOp' = [op |-> "update", called |-> FALSE, field |-> "id",
                        value |-> idValue, response |-> NoResponse,
                        result |-> Threw(MustBeNonNull("update(): 'id'"))]
             /\ UNCHANGED <<db, dbErrors>>

\* delete(collection, id, fieldId)
delete(id, fieldId, nullData) ==
    LET b == BackendDelete(db.public, dbErrors, fieldId, id)
        resp == Minimal(b.response, nullData)
    IN  IF NonNull(id)
        THEN /\ db' = [db EXCEPT !.public = b.store]
             /\ qOp' = [op |-> "delete", called |-> TRUE, field |-> fieldId,
                        value |-> id, response |-> resp,
                        result |-> RowResult(resp)]
             /\ UNCHANGED dbErrors
        ELSE /\ qOp' = [op |-> "delete", called |-> FALSE, field |-> fieldId,
                        value |-> id, response |-> NoResponse,
                        result |-> Threw(MustBeNonNull("delete(): '" \o fieldId \o "'"))]
             /\ UNCHANGED <<db, dbErrors>>

\* the backend starts to report an error for the table
SetError(message) ==
    /\ dbErrors # message
    /\ dbErrors' = message
    /\ qOp' = [op |-> "setError"]
    /\ UNCHANGED db

----------------------------------------------------------------------------
(* Specifications *)

\* no component took a step yet
NoSteps == [steps |-> 0, actor |-> "none"]

ChannelIdle ==
    /\ state = InitialChannelState
    /\ channel = InitialChannel("INITIAL")
    /\ now = 0
    /\ chOp = [op |-> "none"]
    /\ chHist = NoHistory

HealthIdle ==
    /\ netState = [isConnected |-> FALSE, connectionType |-> "unknown",
                   isInternetReachable |-> "null"]
    /\ health = NotRead

NetworkIdle ==
    /\ unsubscribe = 0
    /\ starts = {}
    /\ netInfo = InitialNetInfo(RawStateList[1])
    /\ nHist = InitialHistory
    /\ nOp = [op |-> "none", updates |-> 0]

QueryIdle ==
    /\ db = [public |-> <<>>, other |-> <<>>]
    /\ dbErrors = ""
    /\ qOp = [op |-> "none"]

PollerIdle ==
    /\ isRunning = FALSE
    /\ timer = 0
    /\ provider = InitialProvider
    /\ invocations = <<>>
    /\ onErrorCalls = <<>>
    /\ config = Constructor(null, "absent")
    /\ pOp = [op |-> "none"]

\* ChannelMonitor: new ChannelMonitor(channel) on a channel in any status
InitChannel ==
    /\ state = InitialChannelState
    /\ \E s \in ChannelStatus : channel = InitialChannel(s)
    /\ now = 0
    /\ chOp = [op |-> "new"]
    /\ chHist = NoHistory
    /\ sys = NoSteps
    /\ HealthIdle
    /\ PollerIdle
    /\ NetworkIdle
    /\ QueryIdle

NextChannel ==
    \/ startMonitoring /\ UNCHANGED hVars /\ UNCHANGED pVars /\ UNCHANGED nVars /\ UNCHANGED qVars /\ UNCHANGED dVars /\ UNCHANGED sVars
    \/ (\E s \in ChannelStatus : StatusCallback(s)) /\ UNCHANGED hVars /\ UNCHANGED pVars /\ UNCHANGED nVars /\ UNCHANGED qVars /\ UNCHANGED dVars /\ UNCHANGED sVars
    \/ (\E p \in Payloads : DataEvent(p)) /\ UNCHANGED hVars /\ UNCHANGED pVars /\ UNCHANGED nVars /\ UNCHANGED qVars /\ UNCHANGED dVars /\ UNCHANGED sVars
    \/ stopMonitoring /\ UNCHANGED hVars /\ UNCHANGED pVars /\ UNCHANGED nVars /\ UNCHANGED qVars /\ UNCHANGED dVars /\ UNCHANGED sVars
    \/ UnsubscribeCompletes /\ UNCHANGED hVars /\ UNCHANGED pVars /\ UNCHANGED nVars /\ UNCHANGED qVars /\ UNCHANGED dVars /\ UNCHANGED sVars
    \/ (\E s \in ChannelStatus : ChannelStateChanges(s)) /\ UNCHANGED hVars /\ UNCHANGED pVars /\ UNCHANGED nVars /\ UNCHANGED qVars /\ UNCHANGED dVars /\ UNCHANGED sVars
    \/ (\E d \in ClockSteps : Advance(d)) /\ UNCHANGED hVars /\ UNCHANGED pVars /\ UNCHANGED nVars /\ UNCHANGED qVars /\ UNCHANGED dVars /\ UNCHANGED sVars

SpecChannel == InitChannel /\ [][NextChannel]_vars

\* ChannelMonitor with the computed health observed by a reader
NextObserved ==
    \/ startMonitoring /\ HealthReacts /\ UNCHANGED pVars /\ UNCHANGED nVars /\ UNCHANGED qVars /\ UNCHANGED dVars /\ UNCHANGED sVars
    \/ (\E s \in ChannelStatus : StatusCallback(s))
          /\ HealthReacts /\ UNCHANGED pVars /\ UNCHANGED nVars /\ UNCHANGED qVars /\ UNCHANGED dVars /\ UNCHANGED sVars
    \/ (\E p \in Payloads : DataEvent(p))
          /\ HealthReacts /\ UNCHANGED pVars /\ UNCHANGED nVars /\ UNCHANGED qVars /\ UNCHANGED dVars /\ UNCHANGED sVars
    \/ stopMonitoring /\ HealthReacts /\ UNCHANGED pVars /\ UNCHANGED nVars /\ UNCHANGED qVars /\ UNCHANGED dVars /\ UNCHANGED sVars
    \/ UnsubscribeCompletes /\ HealthReacts /\ UNCHANGED pVars /\ UNCHANGED nVars /\ UNCHANGED qVars /\ UNCHANGED dVars /\ UNCHANGED sVars
    \/ (\E s \in ChannelStatus : ChannelStateChanges(s))
          /\ HealthReacts /\ UNCHANGED pVars /\ UNCHANGED nVars /\ UNCHANGED qVars /\ UNCHANGED dVars /\ UNCHANGED sVars
    \/ (\E d \in ClockSteps : Advance(d))
          /\ HealthReacts /\ UNCHANGED pVars /\ UNCHANGED nVars /\ UNCHANGED qVars /\ UNCHANGED dVars /\ UNCHANGED sVars
    \/ GetHealth /\ UNCHANGED pVars /\ UNCHANGED nVars /\ UNCHANGED qVars /\ UNCHANGED dVars /\ UNCHANGED sVars

SpecObserved == InitChannel /\ [][NextObserved]_vars

\* ChannelMonitor with the computed health observed by a reader and the
\* record of what was delivered
NextDelivery ==
    \/ startMonitoring /\ HealthReacts /\ Track
          /\ UNCHANGED pVars /\ UNCHANGED nVars /\ UNCHANGED qVars /\ UNCHANGED sVars
    \/ (\E s \in ChannelStatus : StatusCallback(s)) /\ HealthReacts /\ Track
          /\ UNCHANGED pVars /\ UNCHANGED nVars /\ UNCHANGED qVars /\ UNCHANGED sVars
    \/ (\E p \in Payloads : DataEvent(p)) /\ HealthReacts /\ Track
          /\ UNCHANGED pVars /\ UNCHANGED nVars /\ UNCHANGED qVars /\ UNCHANGED sVars
    \/ stopMonitoring /\ HealthReacts /\ Track
          /\ UNCHANGED pVars /\ UNCHANGED nVars /\ UNCHANGED qVars /\ UNCHANGED sVars
    \/ UnsubscribeCompletes /\ HealthReacts /\ Track
          /\ UNCHANGED pVars /\ UNCHANGED nVars /\ UNCHANGED qVars /\ UNCHANGED sVars
    \/ (\E s \in ChannelStatus : ChannelStateChanges(s)) /\ HealthReacts /\ Track
          /\ UNCHANGED pVars /\ UNCHANGED nVars /\ UNCHANGED qVars /\ UNCHANGED sVars
    \/ (\E d \in ClockSteps : Advance(d)) /\ HealthReacts /\ Track
          /\ UNCHANGED pVars /\ UNCHANGED nVars /\ UNCHANGED qVars /\ UNCHANGED sVars
    \/ GetHealth /\ Track
          /\ UNCHANGED pVars /\ UNCHANGED nVars /\ UNCHANGED qVars /\ UNCHANGED sVars

SpecDelivery == InitChannel /\ [][NextDelivery]_vars

\* the channel states a ChannelMonitor can publish
PublishedChannelStates ==
    {[status |-> s, lastMessage |-> m, error |-> null] :
        s \in ChannelStatus,
        m \in {null} \cup [message : Payloads, receivedAt : Times]}
    \cup {StatusPatch(prefix, s) :
            prefix \in {"Initial channel status: ", "Channel status: "},
            s \in {"CHANNEL_ERROR", "TIMED_OUT"}}

\* computeChannelHealth on any published channel state, any network state
\* and any time
InitHealth ==
    /\ state \in PublishedChannelStates
    /\ channel = InitialChannel("INITIAL")
    /\ now \in Times
    /\ chOp = [op |-> "none"]
    /\ chHist = NoHistory
    /\ sys = NoSteps
    /\ netState \in NetworkStates
    /\ health = NotRead
    /\ PollerIdle
    /\ NetworkIdle
    /\ QueryIdle

NextHealth == ReadHealth /\ UNCHANGED pVars /\ UNCHANGED nVars /\ UNCHANGED qVars /\ UNCHANGED dVars /\ UNCHANGED sVars

SpecHealth == InitHealth /\ [][NextHealth]_vars

\* Poller: new Poller(config)
InitPoller ==
    /\ ChannelIdle
    /\ HealthIdle
    /\ NetworkIdle
    /\ QueryIdle
    /\ sys = NoSteps
    /\ isRunning = FALSE
    /\ timer = 0
    /\ provider = InitialProvider
    /\ invocations = <<>>
    /\ onErrorCalls = <<>>
    /\ \E i \in IntervalOptions, e \in OnErrorKinds : config = Constructor(i, e)
    /\ pOp = [op |-> "new"]

NextPoller ==
    \/ Start /\ UNCHANGED chVars /\ UNCHANGED hVars /\ UNCHANGED nVars /\ UNCHANGED qVars /\ UNCHANGED dVars /\ UNCHANGED sVars
    \/ Stop /\ UNCHANGED chVars /\ UNCHANGED hVars /\ UNCHANGED nVars /\ UNCHANGED qVars /\ UNCHANGED dVars /\ UNCHANGED sVars
    \/ (\E h \in 1..MaxSetInterval, c \in Completions : Fire(h, c))
          /\ UNCHANGED chVars /\ UNCHANGED hVars /\ UNCHANGED nVars /\ UNCHANGED qVars /\ UNCHANGED dVars /\ UNCHANGED sVars
    \/ (\E h \in 1..MaxSetInterval : FirePending(h))
          /\ UNCHANGED chVars /\ UNCHANGED hVars /\ UNCHANGED nVars /\ UNCHANGED qVars /\ UNCHANGED dVars /\ UNCHANGED sVars
    \/ (\E i \in 1..MaxTicks, c \in Completions : Settle(i, c))
          /\ UNCHANGED chVars /\ UNCHANGED hVars /\ UNCHANGED nVars /\ UNCHANGED qVars /\ UNCHANGED dVars /\ UNCHANGED sVars

SpecPoller == InitPoller /\ [][NextPoller]_vars

\* Poller on a timer provider whose setInterval may throw
NextPollerFaulty ==
    \/ Start
          /\ UNCHANGED chVars /\ UNCHANGED hVars /\ UNCHANGED nVars
          /\ UNCHANGED qVars /\ UNCHANGED dVars /\ UNCHANGED sVars
    \/ Stop
          /\ UNCHANGED chVars /\ UNCHANGED hVars /\ UNCHANGED nVars
          /\ UNCHANGED qVars /\ UNCHANGED dVars /\ UNCHANGED sVars
    \/ (\E h \in 1..MaxSetInterval, c \in Completions : Fire(h, c))
          /\ UNCHANGED chVars /\ UNCHANGED hVars /\ UNCHANGED nVars
          /\ UNCHANGED qVars /\ UNCHANGED dVars /\ UNCHANGED sVars
    \/ (\E h \in 1..MaxSetInterval : FirePending(h))
          /\ UNCHANGED chVars /\ UNCHANGED hVars /\ UNCHANGED nVars
          /\ UNCHANGED qVars /\ UNCHANGED dVars /\ UNCHANGED sVars
    \/ (\E i \in 1..MaxTicks, c \in Completions : Settle(i, c))
          /\ UNCHANGED chVars /\ UNCHANGED hVars /\ UNCHANGED nVars
          /\ UNCHANGED qVars /\ UNCHANGED dVars /\ UNCHANGED sVars
    \/ StartThrows
          /\ UNCHANGED chVars /\ UNCHANGED hVars /\ UNCHANGED nVars
          /\ UNCHANGED qVars /\ UNCHANGED dVars /\ UNCHANGED sVars

SpecPollerFaulty == InitPoller /\ [][NextPollerFaulty]_vars

\* NetworkMonitor: new NetworkMonitor(netInfo) on a provider in any raw state
InitNetwork ==
    /\ sys = NoSteps
    /\ ChannelIdle
    /\ PollerIdle
    /\ QueryIdle
    /\ netState = InitialNetworkState
    /\ health = NotRead
    /\ unsubscribe = 0
    /\ starts = {}
    /\ \E raw \in RawStates : netInfo = InitialNetInfo(raw)
    /\ nHist = InitialHistory
    /\ nOp = [op |-> "new", updates |-> 0]

NextNetwork ==
    \/ StartMonitoringCall /\ UNCHANGED <<chVars, pVars, health, qVars, dVars, sVars>>
    \/ (\E c \in starts : FetchResolves(c)) /\ UNCHANGED <<chVars, pVars, health, qVars, dVars, sVars>>
    \/ (\E c \in starts : FetchRejects(c)) /\ UNCHANGED <<chVars, pVars, health, qVars, dVars, sVars>>
    \/ (\E c \in starts : StartMonitoringResume(c)) /\ UNCHANGED <<chVars, pVars, health, qVars, dVars, sVars>>
    \/ StopMonitoring /\ UNCHANGED <<chVars, pVars, health, qVars, dVars, sVars>>
    \/ (\E raw \in RawStates : ProviderChanges(raw)) /\ UNCHANGED <<chVars, pVars, health, qVars, dVars, sVars>>

SpecNetwork == InitNetwork /\ [][NextNetwork]_vars

\* SupabaseQueryManager: new SupabaseQueryManager(client) on a seeded backend
InitQuery ==
    /\ sys = NoSteps
    /\ ChannelIdle
    /\ HealthIdle
    /\ PollerIdle
    /\ NetworkIdle
    /\ \E pub \in RecordSeqs(MaxRecords), oth \in RecordSeqs(1) :
          db = [public |-> pub, other |-> oth]
    /\ dbErrors = ""
    /\ qOp = [op |-> "new"]

NextQuery ==
    \/ (\E sc \in Schemas, nd \in BOOLEAN : fetch(sc, nd))
          /\ UNCHANGED <<chVars, hVars, pVars, nVars, dVars, sVars>>
    \/ (\E input \in Records, nd \in BOOLEAN : create(input, nd))
          /\ UNCHANGED <<chVars, hVars, pVars, nVars, dVars, sVars>>
    \/ (\E input \in UpdateInputs, nd \in BOOLEAN : update(input, nd))
          /\ UNCHANGED <<chVars, hVars, pVars, nVars, dVars, sVars>>
    \/ (\E id \in IdValues \cup Names \cup NullOrAbsent, f \in {"id", "name"},
           nd \in BOOLEAN : delete(id, f, nd))
          /\ UNCHANGED <<chVars, hVars, pVars, nVars, dVars, sVars>>
    \/ (\E m \in ErrorMessages : SetError(m))
          /\ UNCHANGED <<chVars, hVars, pVars, nVars, dVars, sVars>>

SpecQuery == InitQuery /\ [][NextQuery]_vars

\* one more step, taken by a component
Step(actor) ==
    /\ sys.steps < MaxSystemSteps
    /\ sys' = [steps |-> sys.steps + 1, actor |-> actor]

\* a ChannelMonitor, a NetworkMonitor, the health computed from both and a
\* Poller, side by side
InitSystem ==
    /\ state = InitialChannelState
    /\ \E s \in {"INITIAL", "SUBSCRIBED"} : channel = InitialChannel(s)
    /\ now = 0
    /\ chOp = [op |-> "new"]
    /\ chHist = NoHistory
    /\ netState = InitialNetworkState
    /\ health = NotRead
    /\ isRunning = FALSE
    /\ timer = 0
    /\ provider = InitialProvider
    /\ invocations = <<>>
    /\ onErrorCalls = <<>>
    /\ config = Constructor(null, "returns")
    /\ pOp = [op |-> "new"]
    /\ unsubscribe = 0
    /\ starts = {}
    /\ netInfo = InitialNetInfo(RawStateList[1])
    /\ nHist = InitialHistory
    /\ nOp = [op |-> "new", updates |-> 0]
    /\ QueryIdle
    /\ sys = NoSteps

NextSystem ==
    \/ startMonitoring
          /\ UNCHANGED <<netState, pVars, nVars, qVars>>
          /\ Track /\ HealthTracks /\ Step("channel")
    \/ (\E s \in ChannelStatus : StatusCallback(s))
          /\ UNCHANGED <<netState, pVars, nVars, qVars>>
          /\ Track /\ HealthTracks /\ Step("channel")
    \/ (\E p \in Payloads : DataEvent(p))
          /\ UNCHANGED <<netState, pVars, nVars, qVars>>
          /\ Track /\ HealthTracks /\ Step("channel")
    \/ stopMonitoring
          /\ UNCHANGED <<netState, pVars, nVars, qVars>>
          /\ Track /\ HealthTracks /\ Step("channel")
    \/ UnsubscribeCompletes
          /\ UNCHANGED <<netState, pVars, nVars, qVars>>
          /\ Track /\ HealthTracks /\ Step("channel")
    \/ (\E d \in ClockSteps : Advance(d))
          /\ UNCHANGED <<netState, pVars, nVars, qVars>>
          /\ Track /\ HealthTracks /\ Step("channel")
    \/ StartMonitoringCall
          /\ UNCHANGED <<chVars, pVars, qVars, dVars>>
          /\ HealthTracks /\ Step("network")
    \/ (\E c \in starts : FetchResolves(c))
          /\ UNCHANGED <<chVars, pVars, qVars, dVars>>
          /\ HealthTracks /\ Step("network")
    \/ (\E c \in starts : StartMonitoringResume(c))
          /\ UNCHANGED <<chVars, pVars, qVars, dVars>>
          /\ HealthTracks /\ Step("network")
    \/ StopMonitoring
          /\ UNCHANGED <<chVars, pVars, qVars, dVars>>
          /\ HealthTracks /\ Step("network")
    \/ (\E raw \in RawStates : ProviderChanges(raw))
          /\ UNCHANGED <<chVars, pVars, qVars, dVars>>
          /\ HealthTracks /\ Step("network")
    \/ Start
          /\ Step("poller")
          /\ UNCHANGED <<chVars, hVars, nVars, qVars, dVars>>
    \/ Stop
          /\ Step("poller")
          /\ UNCHANGED <<chVars, hVars, nVars, qVars, dVars>>
    \/ (\E h \in 1..MaxSetInterval, c \in Completions : Fire(h, c))
          /\ Step("poller")
          /\ UNCHANGED <<chVars, hVars, nVars, qVars, dVars>>
    \/ (\E h \in 1..MaxSetInterval : FirePending(h))
          /\ Step("poller")
          /\ UNCHANGED <<chVars, hVars, nVars, qVars, dVars>>
    \/ (\E i \in 1..MaxTicks, c \in Completions : Settle(i, c))
          /\ Step("poller")
          /\ UNCHANGED <<chVars, hVars, nVars, qVars, dVars>>
    \/ GetHealth /\ Track /\ Step("health")
          /\ UNCHANGED <<pVars, nVars, qVars>>

SpecSystem == InitSystem /\ [][NextSystem]_vars

----------------------------------------------------------------------------
(* Claims about computeChannelHealth, under SpecHealth *)

\* C1: a read of the health at time now is true exactly when the status is
\* SUBSCRIBED, the network is connected or its reachability is true or
\* unknown, and a message was received strictly less than 30000 ms before
\* now; a false conjunct alone makes the health false.
C1_HealthIff ==
    health.evaluated =>
        LET subscribed == state.status = "SUBSCRIBED"
            networkOk == netState.isConnected
                            \/ netState.isInternetReachable \in {"true", "null"}
            recent == /\ state.lastMessage # null
                      /\ now - state.lastMessage.receivedAt < 30000
        IN  /\ health.value <=> (subscribed /\ networkOk /\ recent)
            /\ ~subscribed => ~health.value
            /\ ~networkOk => ~health.value
            /\ ~recent => ~health.value

\* C1: the health was read as true with isConnected = false and unknown
\* reachability, on a message 29999 ms old
C1_Witness ==
    /\ health.evaluated
    /\ health.value
    /\ ~netState.isConnected
    /\ netState.isInternetReachable = "null"
    /\ now - state.lastMessage.receivedAt = 29999

----------------------------------------------------------------------------
(* Claims about ChannelMonitor, under SpecChannel *)

\* C2: right after a status-change callback with status s the state has
\* status s and no lastMessage; its error is a ChannelError with code s when
\* s is CHANNEL_ERROR or TIMED_OUT and null for every other s.
C2_StatusCallbackState ==
    chOp.op = "status" =>
        /\ state.status = chOp.status
        /\ state.lastMessage = null
        /\ IF chOp.status \in {"CHANNEL_ERROR", "TIMED_OUT"}
           THEN /\ state.error # null
                /\ state.error.name = "ChannelError"
                /\ state.error.code = chOp.status
           ELSE state.error = null

\* C2: a TIMED_OUT status callback was delivered
C2_Witness ==
    /\ chOp.op = "status"
    /\ chOp.status = "TIMED_OUT"
    /\ state.error # null

\* C3: lastMessage is non-null only when the status is SUBSCRIBED.
C3_LastMessageOnlyWhenSubscribed ==
    state.lastMessage # null => state.status = "SUBSCRIBED"

\* C4: no state carries both a lastMessage and an error.
C4_MessageErrorExclusive ==
    ~(state.lastMessage # null /\ state.error # null)

\* C4: a data event was delivered while the status was TIMED_OUT, which
\* carried an error before
C4_Witness ==
    /\ chOp.op = "data"
    /\ state.status = "TIMED_OUT"
    /\ state.lastMessage # null
    /\ state.error = null

\* C5: a data-event callback with payload p leaves the status as it was,
\* clears the error and stores p verbatim with the clock value at delivery.
C5_DataEventEffect ==
    [][chOp'.op = "data" =>
        /\ state'.status = state.status
        /\ state'.error = null
        /\ state'.lastMessage.message = chOp'.payload
        /\ state'.lastMessage.receivedAt = now
        /\ state'.lastMessage.receivedAt >= now
        /\ DOMAIN state' = {"status", "lastMessage", "error"}
        /\ DOMAIN state'.lastMessage = {"message", "receivedAt"}]_vars

\* C5: a data event was delivered at a time after 0 while the status was
\* CLOSED
C5_Witness ==
    /\ chOp.op = "data"
    /\ state.status = "CLOSED"
    /\ state.lastMessage # null
    /\ state.lastMessage.receivedAt = now
    /\ now > 0

----------------------------------------------------------------------------
(* Claims about Poller, under SpecPoller *)

\* C6: at most one timer handle obtained from the provider is scheduled and
\* not cancelled at any time, and start() on a running Poller does not call
\* setInterval.
C6_AtMostOneTimer ==
    /\ [](Cardinality(provider.scheduled) <= 1)
    /\ [][(pOp'.op = "start" /\ isRunning) =>
            provider'.setIntervalCalls = provider.setIntervalCalls]_vars

\* C6: start() was called on a running Poller in its second run
C6_Witness ==
    /\ pOp.op = "start"
    /\ pOp.noop
    /\ provider.setIntervalCalls = 2
    /\ Cardinality(provider.scheduled) = 1

\* C7: a timer firing or a refresh failure never cancels the timer and never
\* changes isRunning, and the timer of a running Poller stays scheduled
\* whatever failed before, so a later firing invokes refreshFn again.
C7_FailureIsolation ==
    /\ [][pOp'.op \in {"fire", "settle"} =>
            /\ isRunning' = isRunning
            /\ timer' = timer
            /\ provider' = provider]_vars
    /\ [](isRunning => timer \in provider.scheduled)
    /\ [][(pOp'.op = "fire" /\ pOp'.handle \in provider.scheduled) =>
            Len(invocations') = Len(invocations) + 1]_vars

\* C7: tick 2 invoked refreshFn on the timer whose tick 1 had failed before
C7_Witness ==
    /\ pOp.op = "fire"
    /\ isRunning
    /\ Len(invocations) = 2
    /\ invocations[1].result = "rejected"
    /\ invocations[2].handle = invocations[1].handle

\* the calls of onError made for tick i
OnErrorCallsOf(i) == {k \in 1..Len(onErrorCalls) : onErrorCalls[k].tick = i}

\* C8: a tick whose refresh failed has exactly one onError call when an
\* observer is configured, any other tick has none; the value delivered is
\* the thrown Error itself, or a new Error whose message is the string form
\* of the thrown value.
C8_OneErrorCallPerFailure ==
    /\ \A k \in 1..Len(onErrorCalls) : onErrorCalls[k].tick \in 1..Len(invocations)
    /\ \A i \in 1..Len(invocations) :
        LET inv == invocations[i] IN
        IF inv.result = "rejected" /\ config.onError # "absent"
        THEN /\ Cardinality(OnErrorCallsOf(i)) = 1
             /\ \A k \in OnErrorCallsOf(i) :
                  LET e == onErrorCalls[k].error IN
                  /\ e.type = "Error"
                  /\ inv.thrown.type = "Error" => e = inv.thrown
                  /\ inv.thrown.type = "string" =>
                        e.ref = "new" /\ e.message = inv.thrown.string
                  /\ inv.thrown.type = "number" =>
                        e.ref = "new" /\ inv.thrown.number = 42 /\ e.message = "42"
        ELSE OnErrorCallsOf(i) = {}

\* C8: one tick failed with an Error, one with a string and one succeeded
C8_Witness ==
    /\ config.onError = "returns"
    /\ Len(onErrorCalls) = 2
    /\ \E i, j, k \in 1..Len(invocations) :
        /\ invocations[i].result = "rejected"
        /\ invocations[i].thrown.type = "Error"
        /\ invocations[j].result = "rejected"
        /\ invocations[j].thrown.type = "string"
        /\ invocations[k].result = "resolved"

\* C9: stop() on a running Poller leaves no timer scheduled and isRunning
\* false; stop() on a stopped Poller changes nothing and does not call
\* clearInterval.
C9_StopEffect ==
    [][pOp'.op = "stop" =>
        IF isRunning
        THEN /\ provider'.scheduled = {}
             /\ ~isRunning'
             /\ timer' = 0
             /\ provider'.clearIntervalCalls = provider.clearIntervalCalls + 1
        ELSE /\ provider' = provider
             /\ isRunning' = isRunning
             /\ timer' = timer
             /\ invocations' = invocations
             /\ onErrorCalls' = onErrorCalls]_vars

\* C9: stop() was called on a running Poller after a tick
C9_Witness ==
    /\ pOp.op = "stop"
    /\ ~pOp.noop
    /\ ~isRunning
    /\ provider.scheduled = {}
    /\ provider.clearIntervalCalls = 1
    /\ Len(invocations) > 0

\* C10: while the Poller is stopped no refreshFn invocation begins.
C10_NoRefreshWhileStopped ==
    [][~isRunning => Len(invocations') = Len(invocations)]_vars

\* C10: the Poller was stopped after a tick and the promise of that tick
\* settled after the stop
C10_Witness ==
    /\ ~isRunning
    /\ provider.clearIntervalCalls > 0
    /\ pOp.op = "settle"
    /\ Len(invocations) > 0

----------------------------------------------------------------------------
(* Claims about NetworkMonitor, under SpecNetwork *)

\* the NetworkState a raw probe result stands for
Normalized(raw) ==
    [isConnected |-> raw.isConnected = "true",
     connectionType |-> raw.type,
     isInternetReachable |-> raw.isInternetReachable]

\* C11: a startMonitoring() call that follows another one with no
\* stopMonitoring() in between is a no-op: it performs no probe and leaves
\* the state unchanged, and one listener at most is registered.
C11_SecondStartIsNoop ==
    /\ [][(nOp'.op = "start" /\ nHist.startedSinceStop) =>
            /\ netInfo'.fetchCalls = netInfo.fetchCalls
            /\ starts' = starts
            /\ netState' = netState]_vars
    /\ [](nHist.startedSinceStop => netInfo.addListenerCalls - netInfo.unregisterCalls <= 1)

\* C12: every raw probe result applied, from the initial fetch or from the
\* push listener, replaces the three fields of NetworkState: isConnected is
\* the raw flag with null as false, connectionType the raw type and
\* isInternetReachable the raw value.
C12_UpdateReplacesAll ==
    [][nOp'.updates > 0 => netState' = Normalized(nOp'.raw)]_vars

\* C12: a pushed raw state with isConnected = null was applied over a state
\* of another connection type
C12_Witness ==
    /\ nOp.op = "change"
    /\ nOp.updates > 0
    /\ nOp.raw.isConnected = "null"
    /\ ~netState.isConnected
    /\ netState.connectionType = "none"
    /\ netState.isInternetReachable = "null"

\* C13: once stopMonitoring() was called on an active monitor, and until
\* startMonitoring() is called again, no listener is registered and
\* NetworkState keeps the value it had at the stop.
C13_FrozenAfterStop ==
    nHist.frozen # null =>
        /\ netInfo.listeners = {}
        /\ netState = nHist.frozen

\* C14: stopMonitoring() on a monitor that is not monitoring calls no
\* unregister function and changes nothing.
C14_StopWhenIdleIsNoop ==
    [][(nOp'.op = "stop" /\ unsubscribe = 0) =>
        /\ netState' = netState
        /\ netInfo' = netInfo
        /\ unsubscribe' = 0
        /\ starts' = starts]_vars

\* C14: stopMonitoring() was called a second time in a row
C14_Witness ==
    /\ nOp.op = "stop"
    /\ nOp.noop
    /\ netInfo.unregisterCalls = 1
    /\ netInfo.listeners = {}
    /\ starts = {}

\* C15: startMonitoring() called after a completed start and a stop
\* performs one new probe, and its completion applies the probe result and
\* registers one new listener, in every cycle.
C15_RestartProbesAgain ==
    /\ [][(nOp'.op = "start" /\ nHist.frozen # null /\ unsubscribe = 0) =>
            /\ netInfo'.fetchCalls = netInfo.fetchCalls + 1
            /\ \E c \in starts' \ starts : c.phase = "fetching"]_vars
    /\ [][nOp'.op = "resume" =>
            /\ netState' = Normalized(nOp'.raw)
            /\ netInfo'.addListenerCalls = netInfo.addListenerCalls + 1
            /\ unsubscribe' = netInfo'.addListenerCalls
            /\ netInfo'.listeners = netInfo.listeners \cup {unsubscribe'}
            /\ netInfo'.fetchCalls = netInfo.fetchCalls]_vars

\* C15: the second cycle completed and made a change that happened while
\* stopped visible
C15_Witness ==
    /\ nOp.op = "resume"
    /\ netInfo.fetchCalls = 2
    /\ netInfo.addListenerCalls = 2
    /\ netInfo.unregisterCalls = 1
    /\ netInfo.listeners = {2}
    /\ unsubscribe = 2
    /\ nHist.firstUpdate = "probe"
    /\ netState = Normalized(RawStateList[2])

\* C20: the state is {false, unknown, null} until the first probe result is
\* applied, the first update is a probe result and never a pushed one, and
\* the completion of startMonitoring() applies exactly one update, the probe
\* result, and registers the listener.
C20_ProbeFirst ==
    /\ [](nHist.firstUpdate = "none" =>
            netState = [isConnected |-> FALSE, connectionType |-> "unknown",
                        isInternetReachable |-> "null"])
    /\ [](nHist.firstUpdate # "push")
    /\ [](netInfo.addListenerCalls = 0 => netInfo.listeners = {})
    /\ [][nOp'.op = "resume" =>
            /\ nOp'.updates = 1
            /\ netState' = Normalized(nOp'.raw)
            /\ unsubscribe' \in netInfo'.listeners
            /\ starts' \subseteq starts /\ starts' # starts]_vars

\* C20: the first start completed and its probe result replaced the default
\* state
C20_Witness ==
    /\ nOp.op = "resume"
    /\ netInfo.addListenerCalls = 1
    /\ nHist.firstUpdate = "probe"
    /\ netState.isConnected
    /\ netState.connectionType = "wifi"

----------------------------------------------------------------------------
(* Claims about the observed health, under SpecObserved *)

\* C16: a read of the health at a time 30000 ms or more after the last
\* message was received returns false, whether or not any event occurred
\* since the health was last true.
C16_NoStaleHealth ==
    (/\ chOp.op = "getHealth"
     /\ state.lastMessage # null
     /\ now - state.lastMessage.receivedAt >= 30000) => ~chOp.value

----------------------------------------------------------------------------
(* More claims about ChannelMonitor, under SpecChannel *)

\* C17: a new ChannelMonitor holds {INITIAL, null, null}, and right after
\* startMonitoring() the state has the status s read from the channel, no
\* lastMessage, and an error with code s when s is CHANNEL_ERROR or
\* TIMED_OUT and null otherwise.
C17_InitialReconciliation ==
    /\ chOp.op = "new" =>
          state = [status |-> "INITIAL", lastMessage |-> null, error |-> null]
    /\ chOp.op = "startMonitoring" =>
          /\ chOp.status = channel.state
          /\ state.status = channel.state
          /\ state.lastMessage = null
          /\ IF channel.state \in {"CHANNEL_ERROR", "TIMED_OUT"}
             THEN /\ state.error # null
                  /\ state.error.name = "ChannelError"
                  /\ state.error.code = channel.state
             ELSE state.error = null

\* C17: a second startMonitoring() read CHANNEL_ERROR from the channel
C17_Witness ==
    /\ chOp.op = "startMonitoring"
    /\ channel.statusCallbacks = 2
    /\ state.status = "CHANNEL_ERROR"
    /\ state.error # null

\* C18: stopMonitoring() calls unsubscribe() once, returns while the
\* unsubscribe is still pending, and leaves status, lastMessage and error as
\* they were.
C18_StopKeepsState ==
    [][chOp'.op = "stopMonitoring" =>
        /\ channel'.unsubscribeCalls = channel.unsubscribeCalls + 1
        /\ channel'.unsubscribePending
        /\ channel'.statusCallbacks = channel.statusCallbacks
        /\ channel'.dataCallbacks = channel.dataCallbacks
        /\ state' = state]_vars

\* C18: stopMonitoring() was called on a SUBSCRIBED monitor holding a message
C18_Witness ==
    /\ chOp.op = "stopMonitoring"
    /\ channel.unsubscribePending
    /\ state.status = "SUBSCRIBED"
    /\ state.lastMessage # null

----------------------------------------------------------------------------
(* More claims about Poller, under SpecPoller *)

\* C19: a timer handle is held exactly when isRunning is true, and the
\* handle held is the one scheduled with the provider.
C19_TimerIffRunning ==
    /\ (timer # 0) <=> isRunning
    /\ isRunning => provider.scheduled = {timer}
    /\ ~isRunning => provider.scheduled = {}

\* C19: the Poller runs for the second time
C19_Witness ==
    /\ isRunning
    /\ timer = 2
    /\ provider.clearIntervalCalls = 1
    /\ pOp.op = "start"
    /\ ~pOp.noop

----------------------------------------------------------------------------
(* Claims about SupabaseQueryManager, under SpecQuery *)

\* C21: a fetch, create, update or delete whose backend call answers with an
\* error throws an Error whose message is the backend's error message, and
\* gives its caller no data.
C21_BackendErrorThrows ==
    [][(/\ qOp'.op \in {"fetch", "create", "update", "delete"}
        /\ qOp'.called
        /\ qOp'.response.hasError) =>
            /\ qOp'.result.kind = "threw"
            /\ qOp'.result.message = dbErrors
            /\ qOp'.result.message \in ErrorMessages
            /\ qOp'.result.rows = <<>>]_vars

\* C21: an update of a stored record was answered with an error
C21_Witness ==
    /\ qOp.op = "update"
    /\ qOp.called
    /\ qOp.result.kind = "threw"
    /\ qOp.result.message = "Permission denied"
    /\ FindIndex(db.public, "id", qOp.value) # 0

----------------------------------------------------------------------------
(* Claims about the callbacks delivered to ChannelMonitor *)

\* C23: in every reachable state the status is CHANNEL_ERROR or TIMED_OUT
\* exactly when the error is non-null, and then error.code is the status.
C23_ErrorIffErrored ==
    /\ state.status \in {"CHANNEL_ERROR", "TIMED_OUT"} =>
          (state.error # null /\ state.error.code = state.status)
    /\ state.error # null => state.status \in {"CHANNEL_ERROR", "TIMED_OUT"}

\* C24: the status is the one of the last status callback delivered, or the
\* one read by startMonitoring() when none was delivered since, and
\* lastMessage holds the payload of the last data event delivered after
\* that, or is null when there was none.
C24_DeliveryOrder ==
    IF chHist.lastStatus = "none"
    THEN state = [status |-> "INITIAL", lastMessage |-> null, error |-> null]
    ELSE /\ state.status = chHist.lastStatus
         /\ IF chHist.lastData = null
            THEN state.lastMessage = null
            ELSE /\ state.lastMessage # null
                 /\ state.lastMessage.message = chHist.lastData

\* C24: a SUBSCRIBED callback was delivered on a channel whose own state is
\* another one, and the second payload, delivered after it at a time after
\* 0, is the one held
C24_Witness ==
    /\ chOp.op = "data"
    /\ chHist.lastStatus = "SUBSCRIBED"
    /\ channel.state # "SUBSCRIBED"
    /\ chHist.lastData = RealtimePayload(2)
    /\ state.lastMessage # null
    /\ state.lastMessage.message = RealtimePayload(2)
    /\ state.lastMessage.receivedAt > 0

\* C25: once stopMonitoring() was called, and until startMonitoring() is
\* called again, no step changes status, lastMessage or error.
C25_NoUpdateAfterStop ==
    [][(chHist.stopped /\ chOp'.op # "startMonitoring") => state' = state]_vars

\* C26: a status callback leaves lastMessage null, also one that re-affirms
\* SUBSCRIBED over a held message, and the health read is false from a
\* status callback or startMonitoring() until a data event is delivered
\* while the status is SUBSCRIBED.
C26_StatusClearsActivity ==
    /\ [][chOp'.op \in {"status", "startMonitoring"} =>
            state'.lastMessage = null]_vars
    /\ []((/\ chHist.lastStatus # "none"
           /\ chHist.lastData = null \/ state.status # "SUBSCRIBED"
           /\ health.evaluated) => ~health.value)
    /\ []((/\ chOp.op = "getHealth"
           /\ chHist.lastStatus # "none"
           /\ chHist.lastData = null \/ state.status # "SUBSCRIBED") => ~chOp.value)

\* C26: a SUBSCRIBED callback was delivered to a SUBSCRIBED monitor that held
\* a message, and the health, read before, is false
C26_Witness ==
    /\ chOp.op = "status"
    /\ chHist.reaffirmed
    /\ state.status = "SUBSCRIBED"
    /\ state.lastMessage = null
    /\ health.evaluated
    /\ ~health.value

----------------------------------------------------------------------------
(* Claims about overlapping refresh invocations, under SpecPoller *)

\* the invocations that did not settle yet
Pending == {i \in 1..Len(invocations) : invocations[i].result = "pending"}

\* C27: a timer firing starts a refresh invocation whether or not earlier
\* ones are pending, and a firing or the settling of one invocation leaves
\* every other invocation as it was and adds at most the one onError call
\* of the invocation that failed.
C27_TicksOverlap ==
    /\ [][pOp'.op = "fire" =>
            /\ Len(invocations') = Len(invocations) + 1
            /\ \A j \in 1..Len(invocations) : invocations'[j] = invocations[j]
            /\ \A k \in 1..Len(onErrorCalls) : onErrorCalls'[k] = onErrorCalls[k]
            /\ \A k \in (Len(onErrorCalls) + 1)..Len(onErrorCalls') :
                  onErrorCalls'[k].tick = Len(invocations')]_vars
    /\ [][pOp'.op = "settle" =>
            /\ pOp'.tick \in Pending
            /\ Len(invocations') = Len(invocations)
            /\ \A j \in 1..Len(invocations) :
                  j # pOp'.tick => invocations'[j] = invocations[j]
            /\ \A k \in 1..Len(onErrorCalls) : onErrorCalls'[k] = onErrorCalls[k]
            /\ Len(onErrorCalls') =
                  Len(onErrorCalls) +
                    (IF invocations'[pOp'.tick].result = "rejected"
                        /\ config.onError # "absent" THEN 1 ELSE 0)
            /\ \A k \in (Len(onErrorCalls) + 1)..Len(onErrorCalls') :
                  onErrorCalls'[k].tick = pOp'.tick]_vars

\* C27: three invocations were in flight at once; the first one failed and
\* was reported while the other two are still pending
C27_Witness ==
    /\ pOp.op = "settle"
    /\ pOp.tick = 1
    /\ Len(invocations) = 3
    /\ invocations[1].result = "rejected"
    /\ Pending = {2, 3}
    /\ Len(onErrorCalls) = 1
    /\ onErrorCalls[1].tick = 1

\* C28: stop() leaves the invocations in flight and the onError calls as
\* they are and leaves isRunning false and no timer; an invocation is never
\* dropped, and one that fails while the Poller is stopped is reported to
\* onError, with the Poller still stopped.
C28_StopKeepsInFlight ==
    /\ [][pOp'.op = "stop" =>
            /\ invocations' = invocations
            /\ onErrorCalls' = onErrorCalls
            /\ ~isRunning'
            /\ timer' = 0]_vars
    /\ [][/\ Len(invocations') >= Len(invocations)
          /\ \A i \in 1..Len(invocations) :
                /\ invocations'[i].handle = invocations[i].handle
                /\ invocations[i].result # "pending" =>
                      invocations'[i] = invocations[i]]_vars
    /\ [][(/\ pOp'.op = "settle"
           /\ ~isRunning
           /\ invocations'[pOp'.tick].result = "rejected"
           /\ config.onError # "absent") =>
              /\ onErrorCalls' =
                    Append(onErrorCalls,
                           [tick |-> pOp'.tick,
                            error |-> ToError(invocations'[pOp'.tick].thrown)])
              /\ ~isRunning'
              /\ timer' = 0
              /\ provider' = provider]_vars

\* C28: an invocation failed with a string after the stop and was reported,
\* while another one is still in flight
C28_Witness ==
    /\ pOp.op = "settle"
    /\ ~isRunning
    /\ timer = 0
    /\ provider.clearIntervalCalls = 1
    /\ invocations[pOp.tick].result = "rejected"
    /\ invocations[pOp.tick].thrown.type = "string"
    /\ Pending # {}
    /\ Len(onErrorCalls) = 1
    /\ onErrorCalls[1].tick = pOp.tick

\* C29: the Poller is either stopped, with no timer, or running, with one
\* timer; start() on a stopped Poller, fresh or stopped before, gives a
\* running Poller whose only scheduled timer is a new one at the configured
\* interval; and only the timer of the current run fires.
C29_StartStopCycle ==
    /\ [](\/ ~isRunning /\ timer = 0 /\ provider.scheduled = {}
          \/ isRunning /\ timer # 0 /\ provider.scheduled = {timer})
    /\ [][(pOp'.op = "start" /\ ~isRunning) =>
            /\ isRunning'
            /\ provider'.setIntervalCalls = provider.setIntervalCalls + 1
            /\ timer' = provider'.setIntervalCalls
            /\ provider'.scheduled = {timer'}
            /\ provider'.intervals[timer'] = config.intervalMs
            /\ config.intervalMs \in {1000, DEFAULT_INTERVAL_MS}]_vars
    /\ [][pOp'.op = "fire" =>
            /\ isRunning
            /\ pOp'.handle = timer
            /\ invocations'[Len(invocations')].handle = timer]_vars

\* C29: the timer of the second run fired after the timer of the first run
\* had fired and been cancelled
C29_Witness ==
    /\ pOp.op = "fire"
    /\ pOp.handle = 2
    /\ isRunning
    /\ provider.clearIntervalCalls = 1
    /\ Len(invocations) = 2
    /\ invocations[1].handle = 1
    /\ invocations[2].handle = 2
    /\ provider.intervals = <<1000, 1000>>

\* C30: no refresh invocation leaves a rejection unhandled, whatever the
\* refresh operation throws and whatever the error observer does.
C30_NoUnhandledRejection ==
    \A i \in 1..Len(invocations) : ~invocations[i].unhandled

----------------------------------------------------------------------------
(* Claims about repeated ChannelMonitor.startMonitoring(), under SpecChannel *)

\* C31: every startMonitoring() call registers one more status callback and
\* one more postgres_changes callback, also when callbacks are registered
\* already, and sets the state from the channel's current status with no
\* lastMessage; the callbacks of the two kinds are equally many.
C31_StartRegistersAgain ==
    /\ [][chOp'.op = "startMonitoring" =>
            /\ channel'.statusCallbacks = channel.statusCallbacks + 1
            /\ channel'.dataCallbacks = channel.dataCallbacks + 1
            /\ state'.status = channel.state
            /\ state'.lastMessage = null]_vars
    /\ [](channel.statusCallbacks = channel.dataCallbacks)

\* C31: a second startMonitoring() on a monitoring ChannelMonitor left two
\* callbacks of each kind and a SUBSCRIBED state without message
C31_Witness ==
    /\ chOp.op = "startMonitoring"
    /\ channel.statusCallbacks = 2
    /\ channel.dataCallbacks = 2
    /\ channel.unsubscribeCalls = 0
    /\ state.status = "SUBSCRIBED"
    /\ state.lastMessage = null
    /\ now > 0

----------------------------------------------------------------------------
(* Claims about interleaved NetworkMonitor calls, under SpecNetwork *)

\* C33: at most one listener is registered with the provider, and a
\* registered listener is the one whose unregister function the monitor
\* holds.
C33_OneListenerHeld ==
    /\ Cardinality(netInfo.listeners) <= 1
    /\ netInfo.listeners \subseteq {unsubscribe}

\* C34: after a stopMonitoring() call, and until startMonitoring() is called
\* again, no listener is registered and no step changes NetworkState.
C34_QuietAfterStop ==
    /\ [](~nHist.startedSinceStop => netInfo.listeners = {})
    /\ [][(~nHist.startedSinceStop /\ nOp'.op # "start") =>
            netState' = netState]_vars

\* C35: a failed initial probe ends its startMonitoring() call without
\* changing NetworkState, without registering a listener and without
\* marking the monitor as monitoring, and startMonitoring() on a monitor
\* that is not monitoring performs a new probe.
C35_FailedProbe ==
    /\ [][nOp'.op = "fetchFailed" =>
            /\ netState' = netState
            /\ netInfo' = netInfo
            /\ unsubscribe' = unsubscribe
            /\ starts' \subseteq starts
            /\ Cardinality(starts') = Cardinality(starts) - 1]_vars
    /\ [][(nOp'.op = "start" /\ unsubscribe = 0) =>
            /\ netInfo'.fetchCalls = netInfo.fetchCalls + 1
            /\ \E c \in starts' \ starts : c.phase = "fetching"]_vars

\* C35: the first probe failed and a second startMonitoring() call probes
\* again, with the state still the default one
C35_Witness ==
    /\ nOp.op = "start"
    /\ ~nOp.noop
    /\ netInfo.fetchCalls = 2
    /\ netInfo.addListenerCalls = 0
    /\ Cardinality(starts) = 1
    /\ \A c \in starts : c.id = 2
    /\ unsubscribe = 0
    /\ netInfo.listeners = {}
    /\ netState = InitialNetworkState

\* C38: right after startMonitoring() completes, NetworkState is the
\* normalization of the provider's current raw state.
C38_NoLostChange ==
    nOp.op = "resume" => netState = Normalized(netInfo.current)

----------------------------------------------------------------------------
(* Claim about the identifier checks of SupabaseQueryManager, under SpecQuery *)

\* C39: update() with a null or missing identifier field and delete() with
\* a null or missing id throw "... must be non-null" without calling the
\* backend, and the stored records stay as they were.
C39_NullIdFailsEarly ==
    [][(/\ qOp'.op \in {"update", "delete"}
        /\ qOp'.value \in {"null", "absent"}) =>
            /\ ~qOp'.called
            /\ qOp'.result.kind = "threw"
            /\ qOp'.result.message =
                  qOp'.op \o "(): '" \o qOp'.field \o "' must be non-null"
            /\ qOp'.result.rows = <<>>
            /\ db' = db]_vars

\* C39: a delete with a missing id was refused on a table that holds two
\* records and reports no error
C39_Witness ==
    /\ qOp.op = "delete"
    /\ qOp.value = "absent"
    /\ ~qOp.called
    /\ qOp.result.kind = "threw"
    /\ Len(db.public) = 2
    /\ dbErrors = ""

----------------------------------------------------------------------------
(* Claim about the health formula over time, under SpecHealth *)

\* the second disjunct of the health formula
NetworkOk(networkState) ==
    networkState.isConnected \/ networkState.isInternetReachable # "false"

\* the channel states one callback delivered at the current time leads to
AfterStatusCallback ==
    {Assign(state, StatusPatch("Channel status: ", s)) : s \in ChannelStatus}

AfterDataEvent == {Assign(state, DataPatch(p, now)) : p \in Payloads}

\* C37: when the health formula is false at a time, it is false on the same
\* ChannelState and NetworkState at every later time; from there no status
\* callback makes it true, and it is true on a changed state only after a
\* data event delivered to a SUBSCRIBED monitor, or on a NetworkState that
\* is connected or not unreachable where the former one was neither.
C37_MonotoneInTime ==
    (health.evaluated /\ ~health.value) =>
        /\ \A t \in Times : t >= now => ~computeChannelHealth(state, netState, t)
        /\ \A cs \in AfterStatusCallback, ns \in NetworkStates, t \in Times :
              ~computeChannelHealth(cs, ns, t)
        /\ \A cs \in AfterDataEvent, t \in Times :
              (t >= now /\ computeChannelHealth(cs, netState, t)) =>
                  state.status = "SUBSCRIBED"
        /\ \A ns \in NetworkStates, t \in Times :
              (t >= now /\ computeChannelHealth(state, ns, t)) =>
                  (NetworkOk(ns) /\ ~NetworkOk(netState))

\* C37: the formula was read as false on a connected network and a
\* SUBSCRIBED state whose message is exactly 30000 ms old
C37_Witness ==
    /\ health.evaluated
    /\ ~health.value
    /\ state.status = "SUBSCRIBED"
    /\ state.lastMessage # null
    /\ now - state.lastMessage.receivedAt = 30000
    /\ netState.isConnected
    /\ netState.isInternetReachable = "true"

----------------------------------------------------------------------------
(* Claim about a failing timer provider, under SpecPollerFaulty *)

\* C36: right after a start() whose setInterval threw, the Poller is
\* stopped: isRunning is false and no timer is held.
C36_StoppedAfterFailedStart ==
    pOp.op = "startThrew" => (~isRunning /\ timer = 0)

----------------------------------------------------------------------------
(* Claim about the components side by side, under SpecSystem *)

\* C32: a step of the ChannelMonitor or of its channel leaves NetworkState as
\* it was, a step of the NetworkMonitor or of its provider leaves
\* ChannelState as it was, and a step of the Poller or a read of the health
\* leaves both as they were.
C32_OwnStateOnly ==
    [][/\ sys'.actor = "channel" => netState' = netState
       /\ sys'.actor = "network" => state' = state
       /\ sys'.actor = "poller" => (state' = state /\ netState' = netState)
       /\ sys'.actor = "health" => (state' = state /\ netState' = netState)]_vars

\* C32: the NetworkMonitor applied its probe result next to a ChannelMonitor
\* that had set its state before
C32_Witness ==
    /\ sys.actor = "network"
    /\ nOp.op = "resume"
    /\ netState.isConnected
    /\ netState.connectionType = "wifi"
    /\ state.status = "SUBSCRIBED"
    /\ chHist.lastStatus = "SUBSCRIBED"

====
